---- MODULE Spec2Model ----
(***************************************************************************)
(* Model of the Pdf2Docx request handler, functions/Pdf2Docx/main.py.      *)
(*                                                                         *)
(* One invocation of main(context) is a process i.  Its position in the    *)
(* code is pc[i]; its locals are pdf_data, temp_pdf_path, temp_docx_path,  *)
(* cv, docx_content and the caught exception exc.  The temporary directory *)
(* fs is shared by all invocations.  Every call the handler makes on a     *)
(* collaborator (the context object, tempfile, the pdf2docx Converter, the *)
(* file system, base64/json) may raise; which calls raise is an input.     *)
(***************************************************************************)
EXTENDS Integers, Sequences, FiniteSets, TLC

\* ------------------------------------------------------------------ bounds

\* Number of distinct names the temporary-file facility can hand out.
MaxNames == 3

\* Number of invocations the platform runs at the same time.
MaxProcs == 2

Names == 1..MaxNames
Procs == 1..MaxProcs

\* ------------------------------------------------------------------ values

NoFile == [t |-> "nofile", v |-> <<>>]
None   == [t |-> "none",   v |-> <<>>]

Bytes(b) == [t |-> "bytes", v |-> b]

\* The pdf2docx engine is opaque: its output is only known to be determined
\* by the source document it opened.
Docx(b) == [t |-> "bytes", v |-> <<80, 75>> \o b]

\* A JSON value: jt its type, has whether 'pdf_data' is a member of it,
\* vt/v the value stored under 'pdf_data' when it is an object.
JVal(jt, has, vt, v) == [jt |-> jt, has |-> has, vt |-> vt, v |-> v]
NoJson == JVal("invalid", FALSE, "none", <<>>)

\* A request body: t its Python type, v its characters or bytes, json what
\* json.loads makes of it (for a dict: the dict itself).
Body(t, v, j) == [t |-> t, v |-> v, json |-> j]
NoBody   == Body("absent", <<>>, NoJson)
NoneBody == Body("none", <<>>, NoJson)

\* ------------------------------------------------------------------ base64

Pad  == 64
Junk == 65

RECURSIVE Sextets(_)
\* The alphabet characters of s up to the first padding character.
Sextets(s) ==
    IF s = <<>> THEN <<>>
    ELSE IF Head(s) = Pad THEN <<>>
    ELSE IF Head(s) = Junk THEN Sextets(Tail(s))
    ELSE <<Head(s)>> \o Sextets(Tail(s))

RECURSIVE PadCount(_)
PadCount(s) ==
    IF s = <<>> THEN 0
    ELSE (IF Head(s) = Pad THEN 1 ELSE 0) + PadCount(Tail(s))

RECURSIVE Quads(_)
\* Bytes of a sequence of sextets: 4 sextets -> 3 bytes, 3 -> 2, 2 -> 1.
Quads(d) ==
    IF Len(d) < 2 THEN <<>>
    ELSE LET b1 == (d[1] * 4 + d[2] \div 16) % 256
         IN IF Len(d) = 2 THEN <<b1>>
            ELSE LET b2 == ((d[2] % 16) * 16 + d[3] \div 4) % 256
                 IN IF Len(d) = 3 THEN <<b1, b2>>
                    ELSE <<b1, b2, ((d[3] % 4) * 64 + d[4]) % 256>>
                         \o Quads(SubSeq(d, 5, Len(d)))

\* base64.b64decode(s) with validate=False: characters outside the alphabet
\* are discarded, then the padding must complete the last quad.
B64Ok(s) ==
    LET n == Len(Sextets(s)) % 4
    IN  \/ n = 0
        \/ n = 2 /\ PadCount(s) >= 2
        \/ n = 3 /\ PadCount(s) >= 1

b64decode(s) == Quads(Sextets(s))

\* ------------------------------------------------------------------ latin-1

MaxLatin1 == 255

\* The bug of encoding the text as UTF-8: a character above U+007F takes
\* two bytes.
RECURSIVE EncodeUtf8(_)
EncodeUtf8(s) ==
    IF s = <<>> THEN <<>>
    ELSE (IF Head(s) < 128 THEN <<Head(s)>>
          ELSE <<192 + ((Head(s) \div 64) % 32), 128 + (Head(s) % 64)>>)
         \o EncodeUtf8(Tail(s))

\* str.encode('latin-1'): one byte per character, defined for U+0000..U+00FF.
Latin1Ok(s) == \A k \in 1..Len(s) : s[k] <= MaxLatin1
EncodeLatin1(s) == [k \in 1..Len(s) |-> s[k] % 256]

\* ------------------------------------------------------------------ headers

\* str.lower() on the parts of a content-type header value.
Lower(tok) ==
    CASE tok = "Application/PDF"  -> "application/pdf"
      [] tok = "APPLICATION/JSON" -> "application/json"
      [] OTHER -> tok

LowerAll(ct) == [k \in 1..Len(ct) |-> Lower(ct[k])]

\* 'needle' in content_type
Contains(ct, needle) == \E k \in 1..Len(ct) : ct[k] = needle

NoHeaders == [h \in {} |-> ""]

cors_headers ==
    [h \in {"Access-Control-Allow-Origin", "Access-Control-Allow-Methods",
            "Access-Control-Allow-Headers"} |->
        CASE h = "Access-Control-Allow-Origin"  -> "*"
          [] h = "Access-Control-Allow-Methods" -> "POST, OPTIONS"
          [] OTHER -> "Content-Type, Authorization, X-Appwrite-Project"]

\* dict.update: the entries of extra replace those of base.
Update(base, extra) ==
    [h \in DOMAIN base \cup DOMAIN extra |->
        IF h \in DOMAIN extra THEN extra[h] ELSE base[h]]

PreflightHeaders == [h \in {"Access-Control-Max-Age"} |-> "86400"]

DocxHeaders ==
    [h \in {"Content-Type", "Content-Disposition", "Access-Control-Expose-Headers"} |->
        CASE h = "Content-Type" ->
                "application/vnd.openxmlformats-officedocument.wordprocessingml.document"
          [] h = "Content-Disposition" -> "attachment; filename=\"converted.docx\""
          [] OTHER -> "Content-Disposition"]

\* ------------------------------------------------------------------ responses

\* A dict {'error': prefix + description}.
Err(prefix, e) == [t |-> "dict", v |-> <<>>, error |-> <<prefix, e>>]

EmptyStr == [t |-> "str", v |-> <<>>]

NoResp == [kind |-> "none", status |-> 0, headers |-> NoHeaders, body |-> None]

\* The bug of replacing the CORS headers by the branch's headers.
cors_response_replacing(data, status, headers) ==
    [kind    |-> IF data.t = "dict" THEN "json" ELSE "send",
     status  |-> status,
     headers |-> IF headers # NoHeaders THEN headers ELSE cors_headers,
     body    |-> data]

\* cors_response(data, status, headers): the value handed to the platform
\* when context.res.json / context.res.send does not raise.
cors_response(data, status, headers) ==
    [kind    |-> IF data.t = "dict" THEN "json" ELSE "send",
     status  |-> status,
     headers |-> IF headers # NoHeaders THEN Update(cors_headers, headers)
                 ELSE cors_headers,
     body    |-> data]

\* ------------------------------------------------------------------ requests

Methods == {"OPTIONS", "POST", "GET", "post"}

ContentTypes ==
    { <<>>, <<"application/pdf">>, <<"Application/PDF">>, <<"text/plain">>,
      <<"application/json", "charset=utf-8">>, <<"APPLICATION/JSON">> }

JsonValues ==
    { JVal("obj", TRUE, "str", <<9, 20, Pad, Pad>>),    \* one byte
      JVal("obj", TRUE, "str", <<9, 20, 5, 16>>),       \* three bytes
      JVal("obj", TRUE, "str", <<9>>),                  \* truncated
      JVal("obj", TRUE, "str", <<9, 20>>),              \* padding missing
      JVal("obj", TRUE, "str", <<Junk>>),               \* decodes to b''
      JVal("obj", TRUE, "str", <<>>),                   \* decodes to b''
      JVal("obj", TRUE, "num", <<>>),                   \* pdf_data: 5
      JVal("obj", FALSE, "none", <<>>),                 \* {}
      JVal("list", TRUE, "none", <<>>),                 \* ["pdf_data"]
      JVal("list", FALSE, "none", <<>>),                \* []
      JVal("jstr", TRUE, "none", <<>>),                 \* "pdf_data"
      JVal("jstr", FALSE, "none", <<>>),                \* "x"
      JVal("num", FALSE, "none", <<>>) }                \* 5, null

DictValues == { j \in JsonValues : j.jt = "obj" }

BinaryBodies ==
    { NoBody, Body("bytes", <<>>, NoJson), Body("bytes", <<37, 80>>, NoJson) }

Bodies ==
    { NoBody, NoneBody,
      Body("bytes", <<>>, NoJson), Body("bytes", <<37, 80, 255>>, NoJson),
      Body("str", <<>>, NoJson), Body("str", <<37, 255>>, NoJson),
      Body("str", <<37, 256>>, NoJson) }
    \cup { Body("str", <<123>>, j) : j \in JsonValues }
    \cup { Body("bytes", <<123>>, j) : j \in {JVal("obj", TRUE, "str", <<9, 20, Pad, Pad>>)} }
    \cup { Body("dict", <<>>, j) : j \in DictValues }

BodyTexts ==
    { NoBody, Body("str", <<120>>, NoJson),
      Body("str", <<123>>, JVal("obj", TRUE, "str", <<9, 20, 5, 16>>)) }

Requests ==
    [method : Methods, ctype : ContentTypes, bodyBinary : BinaryBodies,
     body : Bodies, bodyText : BodyTexts]

\* bool(x) for a body value.
Truthy(b) ==
    CASE b.t \in {"bytes", "str"} -> b.v # <<>>
      [] b.t = "dict" -> b.json.has
      [] OTHER -> FALSE

\* ------------------------------------------------------------------ extraction

\* The calls of lines 44-93 that can raise whatever the request is.
ExtractSites ==
    {"headers", "log47", "attr", "log_body", "resp_400", "log90", "resp91"}

Out(kind, pdf, resp, e, rz, rd) ==
    [kind |-> kind, pdf_data |-> pdf, resp |-> resp, exc |-> e,
     raised |-> rz, read |-> rd]

\* The bug of an inner handler that lets the exception through.
HandlerReraising(f, e, rz, rd) == Out("raise", None, NoResp, e, rz, rd)

\* except Exception as data_error (lines 89-93)
Handler(f, e, rz, rd) ==
    IF "log90" \in f
    THEN Out("raise", None, NoResp, "log", rz \cup {"log90"}, rd)
    ELSE IF "resp91" \in f
    THEN Out("raise", None, NoResp, "response", rz \cup {"resp91"}, rd)
    ELSE Out("return", None,
             cors_response(Err("Failed to process PDF data: ", e), 400, NoHeaders),
             e, rz, rd)

\* return cors_response({...}, 400) inside the try (lines 82 and 85-87)
Return400(f, msg, rz, rd) ==
    IF "resp_400" \in f
    THEN Handler(f, "response", rz \cup {"resp_400"}, rd)
    ELSE Out("return", None, cors_response(Err(msg, ""), 400, NoHeaders), "", rz, rd)

\* The bug of testing `pdf_data is None` instead of its truth value.
CheckNoneOnly(f, pdf, rz, rd) ==
    IF pdf.t = "none"
    THEN Out("return", None,
             cors_response(Err("No PDF data found. Check content-type and data format.",
                               ""), 400, NoHeaders), "", rz, rd)
    ELSE Out("payload", pdf, NoResp, "", rz, rd)

\* if not pdf_data (lines 84-87), else fall through to the conversion
Check(f, pdf, rz, rd) ==
    IF pdf.t = "none" \/ pdf.v = <<>>
    THEN Return400(f, "No PDF data found. Check content-type and data format.", rz, rd)
    ELSE Out("payload", pdf, NoResp, "", rz, rd)

\* the application/pdf branch (lines 51-61)
PdfBranch(f, r, rz, rd) ==
    IF "attr" \in f THEN Handler(f, "attr", rz \cup {"attr"}, rd)
    ELSE IF r.bodyBinary.t # "absent" /\ Truthy(r.bodyBinary)
    THEN IF "log_body" \in f THEN Handler(f, "log", rz \cup {"log_body"}, rd)
         ELSE Check(f, Bytes(r.bodyBinary.v), rz, rd)
    ELSE IF r.body.t # "absent" /\ Truthy(r.body)
    THEN IF r.body.t = "bytes"
         THEN IF "log_body" \in f THEN Handler(f, "log", rz \cup {"log_body"}, rd)
              ELSE Check(f, Bytes(r.body.v), rz, rd)
         ELSE IF r.body.t = "str"
         THEN IF ~Latin1Ok(r.body.v)
              THEN Handler(f, "UnicodeEncodeError", rz \cup {"encode"}, rd)
              ELSE IF "log_body" \in f
              THEN Handler(f, "log", rz \cup {"log_body"}, rd)
              ELSE Check(f, Bytes(EncodeLatin1(r.body.v)), rz, rd)
         ELSE Check(f, None, rz, rd)
    ELSE Check(f, None, rz, rd)

\* 'pdf_data' in data, data['pdf_data'], base64.b64decode (lines 78-82)
Lookup(f, data, rz, rd) ==
    IF data.jt = "num" THEN Handler(f, "TypeError", rz \cup {"in"}, rd)
    ELSE IF ~data.has THEN Return400(f, "Missing pdf_data field", rz, rd)
    ELSE IF data.jt # "obj" THEN Handler(f, "TypeError", rz \cup {"lookup"}, rd)
    ELSE IF data.vt # "str" THEN Handler(f, "TypeError", rz \cup {"b64"}, rd)
    ELSE IF ~B64Ok(data.v) THEN Handler(f, "binascii.Error", rz \cup {"b64"}, rd)
    ELSE IF "log_body" \in f THEN Handler(f, "log", rz \cup {"log_body"}, rd)
    ELSE Check(f, Bytes(b64decode(data.v)), rz, rd)

\* the application/json branch (lines 65-76)
JsonBranch(f, r, rz, rd) ==
    IF "attr" \in f THEN Handler(f, "attr", rz \cup {"attr"}, rd)
    ELSE IF r.body.t = "dict"
    THEN IF "log_body" \in f THEN Handler(f, "log", rz \cup {"log_body"}, rd)
         ELSE Lookup(f, r.body.json, rz, rd)
    ELSE LET body_text == IF r.bodyText.t # "absent" THEN r.bodyText ELSE r.body
         IN IF body_text.t = "absent"
            THEN Handler(f, "AttributeError", rz \cup {"attr"}, rd)
            ELSE IF body_text.t \notin {"str", "bytes"}
            THEN Handler(f, "TypeError", rz \cup {"json"}, rd)
            ELSE IF body_text.json.jt = "invalid"
            THEN Handler(f, "JSONDecodeError", rz \cup {"json"}, rd)
            ELSE IF "log_body" \in f
            THEN Handler(f, "log", rz \cup {"log_body"}, rd)
            ELSE Lookup(f, body_text.json, rz, rd)

\* Lines 42-93 for request r when the calls in f raise.  The result is the
\* payload, a returned response, or an exception leaving the inner handler.
Extraction(r, f) ==
    IF "headers" \in f THEN Handler(f, "headers", {"headers"}, {"content-type"})
    ELSE LET content_type == LowerAll(r.ctype)
         IN IF "log47" \in f THEN Handler(f, "log", {"log47"}, {"content-type"})
            ELSE IF Contains(content_type, "application/pdf")
            THEN PdfBranch(f, r, {}, {"content-type", "body"})
            ELSE IF Contains(content_type, "application/json")
            THEN JsonBranch(f, r, {}, {"content-type", "body"})
            ELSE Check(f, None, {}, {"content-type"})

\* ------------------------------------------------------------------ state

VARIABLES
    pc,              \* pc[i]: where invocation i is in main()
    req,             \* req[i]: context.req
    pdf_data,        \* pdf_data (line 42)
    temp_pdf_path,   \* temp_pdf_path (line 98), NoPath while unassigned
    temp_docx_path,  \* temp_docx_path (line 101)
    cv,              \* the source document the Converter opened (line 105)
    docx_content,    \* docx_content (line 111)
    exc,             \* the exception a handler has caught (its description)
    resp,            \* the value main() returned
    fs,              \* the temporary directory: name -> file content
    raised,          \* history: the calls of invocation i that raised
    read,            \* history: the request fields invocation i has read
    created,         \* history: the temporary files invocation i created
    engine           \* history: the documents invocation i gave the engine

vars == <<pc, req, pdf_data, temp_pdf_path, temp_docx_path, cv, docx_content,
          exc, resp, fs, raised, read, created, engine>>

locals == <<pdf_data, temp_pdf_path, temp_docx_path, cv, docx_content>>
hist   == <<read, created, engine>>

NoPath == 0

\* Requests of the concurrent runs: every branch of main(), two payloads.
ConcRequests ==
    { r \in Requests :
        /\ r.bodyBinary = NoBody /\ r.bodyText = NoBody
        /\ \/ r.method = "POST" /\ r.ctype = <<"application/pdf">>
              /\ r.body \in {Body("bytes", <<37, 80, 255>>, NoJson),
                             Body("str", <<37, 255>>, NoJson)}
           \/ r.method \in {"OPTIONS", "GET"} /\ r.ctype = <<>> /\ r.body = NoBody }

\* The request of an invocation that never starts.
IdleRequest ==
    [method |-> "OPTIONS", ctype |-> <<>>, bodyBinary |-> NoBody, body |-> NoBody,
     bodyText |-> NoBody]

InitWith(active, assignments) ==
    /\ pc = [i \in Procs |-> IF i \in active THEN "start" ELSE "idle"]
    /\ req \in assignments
    /\ pdf_data = [i \in Procs |-> None]
    /\ temp_pdf_path = [i \in Procs |-> NoPath]
    /\ temp_docx_path = [i \in Procs |-> NoPath]
    /\ cv = [i \in Procs |-> None]
    /\ docx_content = [i \in Procs |-> None]
    /\ exc = [i \in Procs |-> ""]
    /\ resp = [i \in Procs |-> NoResp]
    /\ fs = [n \in Names |-> NoFile]
    /\ raised = [i \in Procs |-> {}]
    /\ read = [i \in Procs |-> {}]
    /\ created = [i \in Procs |-> {}]
    /\ engine = [i \in Procs |-> {}]

\* One invocation.
Init ==
    InitWith({1}, { [i \in Procs |-> IF i = 1 THEN r ELSE IdleRequest] : r \in Requests })

\* The platform runs MaxProcs invocations at the same time.
ConcInit == InitWith(Procs, [Procs -> ConcRequests])

\* ------------------------------------------------------------------ steps

Goto(i, l) == pc' = [pc EXCEPT ![i] = l]

\* A call at `site` raised e; control goes to the handler at label l.
Raise(i, site, e, l) ==
    /\ Goto(i, l)
    /\ exc' = [exc EXCEPT ![i] = e]
    /\ raised' = [raised EXCEPT ![i] = @ \cup {site}]

\* return cors_response(...): context.res.json / context.res.send either
\* yields the response r, which main() returns, or raises.
Respond(i, r, site, handler) ==
    \/ /\ resp' = [resp EXCEPT ![i] = r]
       /\ Goto(i, "done")
       /\ UNCHANGED <<exc, raised>>
    \/ /\ Raise(i, site, "response", handler)
       /\ UNCHANGED resp

\* The bug of comparing with the lower-case method name.
IsPreflightLower(m) == m = "options"

\* The bug of letting GET through the method gate.
IsAllowedOrGet(m) == m \in {"POST", "GET"}

\* if context.req.method == 'OPTIONS' (lines 30-33)
IsPreflight(m) == m = "OPTIONS"

\* if context.req.method != 'POST' (lines 36-39)
IsAllowed(m) == m = "POST"

Preflight(i) ==
    /\ pc[i] = "start"
    /\ IsPreflight(req[i].method)
    /\ Respond(i, cors_response(EmptyStr, 200, PreflightHeaders), "resp31", "outer")
    /\ UNCHANGED <<req, locals, fs, hist>>

MethodGate(i) ==
    /\ pc[i] = "start"
    /\ ~IsPreflight(req[i].method)
    /\ ~IsAllowed(req[i].method)
    /\ Respond(i, cors_response(Err("Only POST requests allowed", ""), 405, NoHeaders),
               "resp37", "outer")
    /\ UNCHANGED <<req, locals, fs, hist>>

\* Payload extraction (lines 42-93).
Extract(i) ==
    /\ pc[i] = "start"
    /\ ~IsPreflight(req[i].method)
    /\ IsAllowed(req[i].method)
    /\ \E f \in SUBSET ExtractSites :
        LET o == Extraction(req[i], f)
        IN /\ pc' = [pc EXCEPT ![i] = CASE o.kind = "payload" -> "create_pdf"
                                        [] o.kind = "return"  -> "done"
                                        [] OTHER              -> "outer"]
           /\ pdf_data' = [pdf_data EXCEPT ![i] = o.pdf_data]
           /\ resp' = [resp EXCEPT ![i] = o.resp]
           /\ exc' = [exc EXCEPT ![i] = o.exc]
           /\ raised' = [raised EXCEPT ![i] = o.raised]
           /\ read' = [read EXCEPT ![i] = o.read]
    /\ UNCHANGED <<req, temp_pdf_path, temp_docx_path, cv, docx_content, fs,
                   created, engine>>

\* ------------------------------------------------------------------ files

Exists(n) == fs[n] # NoFile

\* os.unlink(path) removes the name; the caller's handler is where a
\* FileNotFoundError or any other OSError goes.
Unlink(i, path, site, next, handler) ==
    IF ~Exists(path)
    THEN /\ Raise(i, site, "FileNotFoundError", handler)
         /\ UNCHANGED fs
    ELSE \E ok \in BOOLEAN :
            IF ok
            THEN /\ fs' = [fs EXCEPT ![path] = NoFile]
                 /\ Goto(i, next)
                 /\ UNCHANGED <<exc, raised>>
            ELSE /\ Raise(i, site, "OSError", handler)
                 /\ UNCHANGED fs

\* os.unlink(path) inside try: ... except: pass (lines 130-134): whatever
\* happens, control continues at `next` or, when it raised, at `skip`, and
\* conversion_error stays the exception being reported.
UnlinkQuiet(i, path, site, next, skip) ==
    IF ~Exists(path)
    THEN /\ Goto(i, skip)
         /\ raised' = [raised EXCEPT ![i] = @ \cup {site}]
         /\ UNCHANGED fs
    ELSE \E ok \in BOOLEAN :
            IF ok
            THEN /\ fs' = [fs EXCEPT ![path] = NoFile]
                 /\ Goto(i, next)
                 /\ UNCHANGED raised
            ELSE /\ Goto(i, skip)
                 /\ raised' = [raised EXCEPT ![i] = @ \cup {site}]
                 /\ UNCHANGED fs

\* Where an exception raised by lines 96-101 is handled.
CreateHandler == "outer"

\* Where an exception raised by lines 104-126 is handled.
ConvertHandler == "cleanup_pdf"

\* with tempfile.NamedTemporaryFile(suffix='.pdf', delete=False) as temp_pdf:
\*     temp_pdf.write(pdf_data); temp_pdf_path = temp_pdf.name   (lines 96-98)
CreatePdf(i) ==
    /\ pc[i] = "create_pdf"
    /\ \/ /\ Raise(i, "mkstemp_pdf", "OSError", CreateHandler)
          /\ UNCHANGED <<fs, created, temp_pdf_path>>
       \/ \E n \in Names :
            /\ ~Exists(n)
            /\ created' = [created EXCEPT ![i] = @ \cup {n}]
            /\ \/ /\ fs' = [fs EXCEPT ![n] = Bytes(<<>>)]
                  /\ Raise(i, "write", "OSError", CreateHandler)
                  /\ UNCHANGED temp_pdf_path
               \/ /\ fs' = [fs EXCEPT ![n] = pdf_data[i]]
                  /\ temp_pdf_path' = [temp_pdf_path EXCEPT ![i] = n]
                  /\ Goto(i, "create_docx")
                  /\ UNCHANGED <<exc, raised>>
    /\ UNCHANGED <<req, pdf_data, temp_docx_path, cv, docx_content, resp, read, engine>>

\* with tempfile.NamedTemporaryFile(suffix='.docx', delete=False) as temp_docx:
\*     temp_docx_path = temp_docx.name                            (lines 100-101)
CreateDocx(i) ==
    /\ pc[i] = "create_docx"
    /\ \/ /\ Raise(i, "mkstemp_docx", "OSError", CreateHandler)
          /\ UNCHANGED <<fs, created, temp_docx_path>>
       \/ \E n \in Names :
            /\ ~Exists(n)
            /\ created' = [created EXCEPT ![i] = @ \cup {n}]
            /\ fs' = [fs EXCEPT ![n] = Bytes(<<>>)]
            /\ temp_docx_path' = [temp_docx_path EXCEPT ![i] = n]
            /\ Goto(i, "ctor")
            /\ UNCHANGED <<exc, raised>>
    /\ UNCHANGED <<req, pdf_data, temp_pdf_path, cv, docx_content, resp, read, engine>>

\* cv = Converter(temp_pdf_path)                                  (line 105)
Construct(i) ==
    /\ pc[i] = "ctor"
    /\ engine' = [engine EXCEPT ![i] = @ \cup {fs[temp_pdf_path[i]]}]
    /\ IF ~Exists(temp_pdf_path[i])
       THEN /\ Raise(i, "ctor", "FileNotFoundError", ConvertHandler)
            /\ UNCHANGED cv
       ELSE \E ok \in BOOLEAN :
            IF ok
            THEN /\ cv' = [cv EXCEPT ![i] = fs[temp_pdf_path[i]]]
                 /\ Goto(i, "convert")
                 /\ UNCHANGED <<exc, raised>>
            ELSE /\ Raise(i, "ctor", "ConversionError", ConvertHandler)
                 /\ UNCHANGED cv
    /\ UNCHANGED <<req, pdf_data, temp_pdf_path, temp_docx_path, docx_content,
                   resp, fs, read, created>>

\* cv.convert(temp_docx_path, start=0, end=None)                  (line 106)
Convert(i) ==
    /\ pc[i] = "convert"
    /\ \E ok \in BOOLEAN :
        IF ok
        THEN /\ fs' = [fs EXCEPT ![temp_docx_path[i]] = Docx(cv[i].v)]
             /\ Goto(i, "close")
             /\ UNCHANGED <<exc, raised>>
        ELSE /\ Raise(i, "convert", "ConversionError", ConvertHandler)
             /\ UNCHANGED fs
    /\ UNCHANGED <<req, locals, resp, hist>>

\* cv.close()                                                     (line 107)
Close(i) ==
    /\ pc[i] = "close"
    /\ \E ok \in BOOLEAN :
        IF ok
        THEN Goto(i, "read") /\ UNCHANGED <<exc, raised>>
        ELSE Raise(i, "close", "ConversionError", ConvertHandler)
    /\ UNCHANGED <<req, locals, resp, fs, hist>>

\* with open(temp_docx_path, 'rb') as docx_file:
\*     docx_content = docx_file.read()                            (lines 110-111)
ReadDocx(i) ==
    /\ pc[i] = "read"
    /\ IF ~Exists(temp_docx_path[i])
       THEN /\ Raise(i, "read", "FileNotFoundError", ConvertHandler)
            /\ UNCHANGED docx_content
       ELSE \E ok \in BOOLEAN :
            IF ok
            THEN /\ docx_content' = [docx_content EXCEPT ![i] = fs[temp_docx_path[i]]]
                 /\ Goto(i, "unlink_pdf")
                 /\ UNCHANGED <<exc, raised>>
            ELSE /\ Raise(i, "read", "OSError", ConvertHandler)
                 /\ UNCHANGED docx_content
    /\ UNCHANGED <<req, pdf_data, temp_pdf_path, temp_docx_path, cv, resp, fs, hist>>

\* os.unlink(temp_pdf_path)                                       (line 114)
UnlinkPdf(i) ==
    /\ pc[i] = "unlink_pdf"
    /\ Unlink(i, temp_pdf_path[i], "unlink_pdf", "unlink_docx", ConvertHandler)
    /\ UNCHANGED <<req, locals, resp, hist>>

\* os.unlink(temp_docx_path)                                      (line 115)
UnlinkDocx(i) ==
    /\ pc[i] = "unlink_docx"
    /\ Unlink(i, temp_docx_path[i], "unlink_docx", "send_ok", ConvertHandler)
    /\ UNCHANGED <<req, locals, resp, hist>>

\* return cors_response(docx_content, 200, {...})                 (lines 118-126)
SendOk(i) ==
    /\ pc[i] = "send_ok"
    /\ Respond(i, cors_response(docx_content[i], 200, DocxHeaders), "resp118",
               ConvertHandler)
    /\ UNCHANGED <<req, locals, fs, hist>>

\* except Exception as conversion_error: try: os.unlink(temp_pdf_path)
\*                                                                (lines 128-131)
CleanupPdf(i) ==
    /\ pc[i] = "cleanup_pdf"
    /\ UnlinkQuiet(i, temp_pdf_path[i], "cleanup_pdf", "cleanup_docx", "send_err")
    /\ UNCHANGED <<req, locals, exc, resp, hist>>

\* os.unlink(temp_docx_path); except: pass                        (lines 132-134)
CleanupDocx(i) ==
    /\ pc[i] = "cleanup_docx"
    /\ UnlinkQuiet(i, temp_docx_path[i], "cleanup_docx", "send_err", "send_err")
    /\ UNCHANGED <<req, locals, exc, resp, hist>>

\* return cors_response({'error': f'Conversion failed: ...'}, 500) (lines 136-138)
SendErr(i) ==
    /\ pc[i] = "send_err"
    /\ Respond(i, cors_response(Err("Conversion failed: ", exc[i]), 500, NoHeaders),
               "resp136", "outer")
    /\ UNCHANGED <<req, locals, fs, hist>>

\* except Exception as e: return cors_response({...}, 500)        (lines 140-143)
\* An exception raised here leaves main().
Outer(i) ==
    /\ pc[i] = "outer"
    /\ Respond(i, cors_response(Err("Request processing failed: ", exc[i]), 500,
                                NoHeaders), "resp141", "propagated")
    /\ UNCHANGED <<req, locals, fs, hist>>

Next ==
    \E i \in Procs :
        \/ Preflight(i)
        \/ MethodGate(i)
        \/ Extract(i)
        \/ CreatePdf(i)
        \/ CreateDocx(i)
        \/ Construct(i)
        \/ Convert(i)
        \/ Close(i)
        \/ ReadDocx(i)
        \/ UnlinkPdf(i)
        \/ UnlinkDocx(i)
        \/ SendOk(i)
        \/ CleanupPdf(i)
        \/ CleanupDocx(i)
        \/ SendErr(i)
        \/ Outer(i)

Spec == Init /\ [][Next]_vars

ConcSpec == ConcInit /\ [][Next]_vars

Returned(i) == pc[i] = "done"
Finished(i) == pc[i] \in {"done", "propagated"}

\* ------------------------------------------------------------------ claims

Active == { i \in Procs : pc[i] # "idle" }

IsJsonError(r, status, prefix) ==
    /\ r.kind = "json"
    /\ r.status = status
    /\ r.body.t = "dict"
    /\ r.body.error[1] = prefix

Sends(r, h, v) == h \in DOMAIN r.headers /\ r.headers[h] = v

HasCors(r) ==
    /\ {"Access-Control-Allow-Origin", "Access-Control-Allow-Methods",
        "Access-Control-Allow-Headers"} \subseteq DOMAIN r.headers
    /\ r.headers["Access-Control-Allow-Origin"] = "*"
    /\ r.headers["Access-Control-Allow-Methods"] = "POST, OPTIONS"
    /\ r.headers["Access-Control-Allow-Headers"] =
            "Content-Type, Authorization, X-Appwrite-Project"

NothingTouched(i) == read[i] = {} /\ created[i] = {} /\ engine[i] = {}

\* C1: when main() has returned (or an exception has left it), every
\* temporary file the invocation created has been deleted.
C1_TempFilesRemoved ==
    \A i \in Active :
        Finished(i) => \A n \in created[i] : ~Exists(n)

\* C2: no exception propagates out of main(), and what it returns is either
\* the successful non-JSON response or a JSON error response.
C2_Totality ==
    \A i \in Active :
        /\ pc[i] # "propagated"
        /\ Returned(i) =>
              \/ resp[i].kind = "send" /\ resp[i].status = 200
              \/ resp[i].kind = "json" /\ resp[i].status \in {400, 405, 500}

\* C3 as stated: a request whose method is neither POST nor OPTIONS is
\* answered 405 "Only POST requests allowed" and nothing of the request
\* body or headers is read, no file is created, the engine is not invoked.
C3_MethodGate ==
    \A i \in Active :
        (Finished(i) /\ req[i].method \notin {"POST", "OPTIONS"}) =>
            /\ Returned(i)
            /\ IsJsonError(resp[i], 405, "Only POST requests allowed")
            /\ NothingTouched(i)

\* C3 amended: for a method that is neither POST nor OPTIONS the handler
\* never reads the content type or the body, creates no file and does not
\* invoke the engine; it returns the 405 error unless building that
\* response raises, and then the outer handler's 500 is what it returns.
C3_MethodGateAmended ==
    \A i \in Active :
        (pc[i] # "start" /\ req[i].method \notin {"POST", "OPTIONS"}) =>
            /\ NothingTouched(i)
            /\ pc[i] \in {"done", "outer", "propagated"}
            /\ (Returned(i) /\ "resp37" \notin raised[i]) =>
                    /\ IsJsonError(resp[i], 405, "Only POST requests allowed")
                    /\ resp[i].body.error[2] = ""
            /\ (Returned(i) /\ "resp37" \in raised[i]) =>
                    IsJsonError(resp[i], 500, "Request processing failed: ")

C3_Witness ==
    /\ Returned(1)
    /\ req[1].method = "GET"
    /\ req[1].ctype = <<"application/pdf">>
    /\ req[1].body.v = <<37, 80, 255>>
    /\ resp[1].status = 405

\* C4 as stated: an OPTIONS request is answered 200 with an empty body, the
\* CORS headers and Access-Control-Max-Age "86400", with no other processing.
C4_Preflight ==
    \A i \in Active :
        (Finished(i) /\ req[i].method = "OPTIONS") =>
            /\ Returned(i)
            /\ resp[i].status = 200
            /\ resp[i].body = EmptyStr
            /\ HasCors(resp[i])
            /\ "Access-Control-Max-Age" \in DOMAIN resp[i].headers
            /\ resp[i].headers["Access-Control-Max-Age"] = "86400"
            /\ NothingTouched(i)

\* C4 amended: for an OPTIONS request the handler does no other processing;
\* it returns 200, empty body, CORS headers and max-age "86400" unless
\* building that response raises, and then the outer handler's 500 is what
\* it returns.
C4_PreflightAmended ==
    \A i \in Active :
        (pc[i] # "start" /\ req[i].method = "OPTIONS") =>
            /\ NothingTouched(i)
            /\ pc[i] \in {"done", "outer", "propagated"}
            /\ (Returned(i) /\ "resp31" \notin raised[i]) =>
                    /\ resp[i].kind = "send"
                    /\ resp[i].status = 200
                    /\ resp[i].body = EmptyStr
                    /\ HasCors(resp[i])
                    /\ "Access-Control-Max-Age" \in DOMAIN resp[i].headers
                    /\ resp[i].headers["Access-Control-Max-Age"] = "86400"
            /\ (Returned(i) /\ "resp31" \in raised[i]) =>
                    IsJsonError(resp[i], 500, "Request processing failed: ")

C4_Witness ==
    /\ Returned(1)
    /\ req[1].method = "OPTIONS"
    /\ req[1].ctype = <<"application/json", "charset=utf-8">>
    /\ req[1].body.t = "dict"
    /\ resp[1].status = 200

\* C5: every response main() returns carries the three CORS headers, merged
\* with the headers of its branch; a branch header wins over a CORS header
\* of the same name.
C5_CorsOnEveryResponse ==
    /\ \A i \in Active :
        Returned(i) =>
            /\ HasCors(resp[i])
            /\ resp[i].status \in {200, 400, 405, 500}
            /\ (resp[i].status = 200 /\ req[i].method = "OPTIONS") =>
                    /\ DOMAIN resp[i].headers = DOMAIN cors_headers
                                                  \cup {"Access-Control-Max-Age"}
                    /\ Sends(resp[i], "Access-Control-Max-Age", "86400")
            /\ (resp[i].status = 200 /\ req[i].method = "POST") =>
                    /\ DOMAIN resp[i].headers =
                            DOMAIN cors_headers
                            \cup {"Content-Type", "Content-Disposition",
                                  "Access-Control-Expose-Headers"}
                    /\ Sends(resp[i], "Content-Disposition",
                             "attachment; filename=\"converted.docx\"")
            /\ resp[i].status # 200 => DOMAIN resp[i].headers = DOMAIN cors_headers
    /\ \A origin \in {"*", "https://example.org"} :
        LET branch == [h \in {"Access-Control-Allow-Origin", "Vary"} |->
                            IF h = "Vary" THEN "Origin" ELSE origin]
            r == cors_response(EmptyStr, 200, branch)
        IN /\ Sends(r, "Access-Control-Allow-Origin", origin)
           /\ Sends(r, "Vary", "Origin")
           /\ Sends(r, "Access-Control-Allow-Methods", "POST, OPTIONS")

C5_Witness ==
    /\ Returned(1)
    /\ resp[1].status = 200
    /\ req[1].method = "POST"
    /\ "Content-Type" \in DOMAIN resp[1].headers
    /\ "Access-Control-Allow-Origin" \in DOMAIN resp[1].headers

\* The exceptions payload extraction can raise (the calls of lines 46-87).
InTry ==
    {"headers", "log47", "attr", "log_body", "resp_400", "encode", "json", "in",
     "lookup", "b64"}

\* Those the claim lists: header and body access, latin-1 encoding, JSON
\* parsing, the membership test and lookup of pdf_data, base64 decoding.
Listed == {"headers", "attr", "encode", "json", "in", "lookup", "b64"}

\* The description the 400 response carries for the exception raised at a site.
Description(site) ==
    CASE site = "encode" -> "UnicodeEncodeError"
      [] site = "json"   -> {"JSONDecodeError", "TypeError"}
      [] site = "b64"    -> {"binascii.Error", "TypeError"}
      [] site \in {"in", "lookup"} -> "TypeError"
      [] site = "attr"   -> {"attr", "AttributeError"}
      [] site \in {"log47", "log_body"} -> "log"
      [] site = "resp_400" -> "response"
      [] OTHER -> site

Describes(site, e) ==
    IF site \in {"json", "b64", "attr"} THEN e \in Description(site)
    ELSE e = Description(site)

\* C6 as stated: on a POST, an exception raised during payload extraction
\* ends in a 400 JSON error carrying its description; never a 500, never
\* propagated; no temporary file, no engine call.
C6_ExtractionFailure ==
    \A i \in Active :
        (Finished(i) /\ req[i].method = "POST" /\ raised[i] \cap Listed # {}) =>
            /\ Returned(i)
            /\ IsJsonError(resp[i], 400, "Failed to process PDF data: ")
            /\ \E site \in raised[i] \cap Listed : Describes(site, resp[i].body.error[2])
            /\ created[i] = {} /\ engine[i] = {}

\* C6 amended: on a POST, an exception raised during payload extraction
\* never leads to a temporary file or an engine call, and it ends in a 400
\* JSON error carrying its description unless the inner handler itself
\* raises (its log call, line 90, or the construction of the 400 response,
\* lines 91-93); then the outer handler's 500 is what main() returns.
C6_ExtractionFailureAmended ==
    \A i \in Active :
        (pc[i] # "start" /\ req[i].method = "POST" /\ raised[i] \cap InTry # {}) =>
            /\ created[i] = {} /\ engine[i] = {}
            /\ pc[i] \in {"done", "outer", "propagated"}
            /\ (Returned(i) /\ raised[i] \cap {"log90", "resp91"} = {}) =>
                    /\ IsJsonError(resp[i], 400, "Failed to process PDF data: ")
                    /\ \E site \in raised[i] \cap InTry :
                            Describes(site, resp[i].body.error[2])
            /\ (Returned(i) /\ raised[i] \cap {"log90", "resp91"} # {}) =>
                    IsJsonError(resp[i], 500, "Request processing failed: ")

C6_Witness ==
    /\ Returned(1)
    /\ "b64" \in raised[1]
    /\ resp[1].status = 400
    /\ resp[1].body.error = <<"Failed to process PDF data: ", "binascii.Error">>

\* The requests the claim lists as yielding no payload.
IsPdf(r)  == Contains(LowerAll(r.ctype), "application/pdf")
IsJson(r) == ~IsPdf(r) /\ Contains(LowerAll(r.ctype), "application/json")

JsonData(r) ==
    IF r.body.t = "dict" THEN r.body.json
    ELSE IF r.bodyText.t # "absent" THEN r.bodyText.json
    ELSE r.body.json

JsonParses(r) ==
    \/ r.body.t = "dict"
    \/ r.bodyText.t # "absent" /\ r.bodyText.json.jt # "invalid"
    \/ r.bodyText.t = "absent" /\ r.body.t \in {"str", "bytes"}
       /\ r.body.json.jt # "invalid"

Unrecognized(r) == ~IsPdf(r) /\ ~IsJson(r)

PdfWithoutBody(r) ==
    /\ IsPdf(r)
    /\ r.bodyBinary.v = <<>>
    /\ \/ r.body.t \in {"absent", "none", "dict"}
       \/ r.body.t \in {"bytes", "str"} /\ r.body.v = <<>>

JsonEmptyPayload(r) ==
    /\ IsJson(r) /\ JsonParses(r)
    /\ JsonData(r).jt = "obj" /\ JsonData(r).has /\ JsonData(r).vt = "str"
    /\ JsonData(r).v \in {<<>>, <<Junk>>}

JsonMissingField(r) ==
    /\ IsJson(r) /\ JsonParses(r)
    /\ JsonData(r).jt \in {"obj", "list", "jstr"} /\ ~JsonData(r).has

NoPayload(r) ==
    Unrecognized(r) \/ PdfWithoutBody(r) \/ JsonEmptyPayload(r) \/ JsonMissingField(r)

NoPayloadAnswer(i) ==
    /\ IsJsonError(resp[i], 400,
                   IF JsonMissingField(req[i]) THEN "Missing pdf_data field"
                   ELSE "No PDF data found. Check content-type and data format.")
    /\ resp[i].body.error[2] = ""

NonEmptyOnly(i) == \A d \in engine[i] : d.t = "bytes" /\ d.v # <<>>

\* C7 as stated: a POST whose extraction raises nothing and yields no
\* payload is answered 400 ("Missing pdf_data field" or the no-PDF-data
\* message), no temporary file is created and the engine is not invoked;
\* the engine only ever gets a non-empty payload.
C7_NoPayload ==
    \A i \in Active :
        /\ (Finished(i) /\ req[i].method = "POST" /\ NoPayload(req[i])
            /\ raised[i] \cap (InTry \ {"resp_400"}) = {}) =>
                /\ Returned(i)
                /\ NoPayloadAnswer(i)
                /\ created[i] = {} /\ engine[i] = {}
        /\ NonEmptyOnly(i)

\* C7 amended: for such a POST no temporary file is ever created and the
\* engine is never invoked; the answer is that 400 unless constructing it
\* raises; the engine only ever gets a non-empty payload.
C7_NoPayloadAmended ==
    \A i \in Active :
        /\ (req[i].method = "POST" /\ NoPayload(req[i])) =>
                /\ created[i] = {} /\ engine[i] = {}
                /\ pc[i] \in {"start", "done", "outer", "propagated"}
                /\ (Returned(i) /\ raised[i] \cap InTry = {}) => NoPayloadAnswer(i)
        /\ NonEmptyOnly(i)

C7_Witness ==
    /\ Returned(1)
    /\ req[1].method = "POST"
    /\ JsonEmptyPayload(req[1])
    /\ raised[1] = {}
    /\ resp[1].status = 400

\* The payload a request carries, by its encoding.
Carried(r) ==
    IF IsPdf(r)
    THEN IF r.bodyBinary.v # <<>> THEN r.bodyBinary.v ELSE r.body.v
    ELSE CASE JsonData(r).v = <<9, 20, Pad, Pad>> -> <<37>>
           [] JsonData(r).v = <<9, 20, 5, 16>>    -> <<37, 65, 80>>
           [] OTHER -> <<>>

IsDocxResponse(i) ==
    /\ resp[i].kind = "send"
    /\ resp[i].status = 200
    /\ resp[i].body = docx_content[i]
    /\ resp[i].body.t = "bytes"
    /\ "Content-Type" \in DOMAIN resp[i].headers
    /\ resp[i].headers["Content-Type"] =
          "application/vnd.openxmlformats-officedocument.wordprocessingml.document"
    /\ "Content-Disposition" \in DOMAIN resp[i].headers
    /\ resp[i].headers["Content-Disposition"] = "attachment; filename=\"converted.docx\""
    /\ "Access-Control-Expose-Headers" \in DOMAIN resp[i].headers
    /\ resp[i].headers["Access-Control-Expose-Headers"] = "Content-Disposition"

EngineSucceeded(i) ==
    /\ cv[i] # None
    /\ raised[i] \cap {"ctor", "convert", "close"} = {}
    /\ pc[i] \notin {"convert", "close"}

\* C8 as stated: a POST carrying a non-empty payload on which the engine
\* succeeds is answered 200 with the bytes read from the destination file
\* and the DOCX headers.
C8_Success ==
    \A i \in Active :
        (Finished(i) /\ req[i].method = "POST" /\ EngineSucceeded(i)) =>
            /\ Returned(i)
            /\ IsDocxResponse(i)

\* C8 amended: such a POST is answered 200 with the bytes read from the
\* destination file and the DOCX headers, provided that reading the output,
\* both os.unlink calls and the construction of the response do not raise;
\* a 200 answer to a POST is always of that form, and the payload converted
\* is the request's bytes, its text one byte per character, or its decoded
\* base64 field.
C8_SuccessAmended ==
    \A i \in Active :
        /\ (Finished(i) /\ req[i].method = "POST" /\ EngineSucceeded(i)
            /\ raised[i] \cap {"read", "unlink_pdf", "unlink_docx", "resp118"} = {}) =>
                /\ Returned(i)
                /\ IsDocxResponse(i)
        /\ (Returned(i) /\ req[i].method = "POST" /\ resp[i].status = 200) =>
                /\ IsDocxResponse(i)
                /\ raised[i] = {}
                /\ pdf_data[i] = Bytes(Carried(req[i]))

C8_Witness ==
    /\ Returned(1)
    /\ IsJson(req[1])
    /\ resp[1].status = 200
    /\ resp[1].body.v = <<80, 75, 37, 65, 80>>

C8_WitnessText ==
    /\ Returned(1)
    /\ IsPdf(req[1])
    /\ req[1].body.t = "str"
    /\ resp[1].status = 200
    /\ resp[1].body.v = <<80, 75, 37, 255>>

ConversionSites == {"write", "ctor", "convert", "close", "read"}

\* The deletion of temporary file n was attempted: it is gone, or the
\* os.unlink on it raised.
Attempted(i, n) ==
    \/ ~Exists(n)
    \/ n = temp_pdf_path[i] /\ "cleanup_pdf" \in raised[i]
    \/ n = temp_docx_path[i] /\ "cleanup_docx" \in raised[i]

\* C9: after an exception while writing the payload, running the engine or
\* reading the output, main() has attempted to delete each temporary file
\* (a failed deletion does not stop the other) and returns a 500 JSON error
\* embedding the description.
C9_ConversionFailure ==
    \A i \in Active :
        (Returned(i) /\ raised[i] \cap ConversionSites # {}) =>
            /\ \A n \in created[i] : Attempted(i, n)
            /\ resp[i].kind = "json" /\ resp[i].status = 500
            /\ resp[i].body.error[2] \in {"OSError", "ConversionError", "FileNotFoundError"}

\* C10: under any interleaving an invocation finds the files it created as
\* it left them until it deletes them itself, and a 200 answer carries the
\* conversion of that invocation's own payload.
C10_Isolation ==
    \A i \in Active :
        /\ pc[i] = "ctor" => fs[temp_pdf_path[i]] = pdf_data[i]
        /\ pc[i] \in {"ctor", "convert", "close"} => Exists(temp_docx_path[i])
        /\ pc[i] = "read" => fs[temp_docx_path[i]] = Docx(cv[i].v)
        /\ (Returned(i) /\ req[i].method = "POST" /\ resp[i].status = 200) =>
                resp[i].body = Docx(pdf_data[i].v)

====
